---- MODULE Spec2Model ----
(***************************************************************************)
(* Lead-to-Opportunity-Speed: the batch run (src/main.py) and the         *)
(* interactive dashboard (src/dashboard.py).                               *)
(*                                                                         *)
(* Timestamps are whole seconds counted from 2024-01-01T00:00:00, already  *)
(* timezone-naive (the value pd.to_datetime(..).dt.tz_localize(None)       *)
(* leaves).  A Timedelta is a whole number of seconds; pandas keeps        *)
(* nanoseconds, and mean() truncates toward zero at that resolution, here  *)
(* at one second: floor(floor(x) / k) = floor(x / k), so the days, hours   *)
(* and minutes shown are the same.                                         *)
(***************************************************************************)
EXTENDS Integers, Sequences, FiniteSets, TLC

VARIABLES
    surface,        \* "batch" (main.py) or "interactive" (dashboard.py)
    pc,             \* position of the invocation
    now,            \* wall clock, seconds
    leads_cache,    \* st.cache_data entry of get_supabase_leads
    events_cache,   \* st.cache_data entry of get_google_calendar_events
    df_leads,       \* what get_supabase_leads returned
    df_events,      \* what get_google_calendar_events returned
    calendars,      \* calendar_list_result.get('items', [])
    cal_i,          \* index of the calendar the loop is at
    all_events,     \* events accumulated over the calendars
    faults,         \* the remote steps that failed in this invocation
    diagnostics,    \* messages the fetchers surfaced in this invocation
    notice,         \* the notice or result header the invocation ended with
    first_call_df,  \* the retained rows
    average_speed,  \* << mean of the retained speeds, seconds >>, or << >>
    shown,          \* << the rendered metric >>, or << >>
    leads_fetches,  \* lead-store queries sent in this invocation
    events_fetches  \* calendar-list calls sent in this invocation

vars == << surface, pc, now, leads_cache, events_cache, df_leads, df_events,
           calendars, cal_i, all_events, faults, diagnostics, notice,
           first_call_df, average_speed, shown, leads_fetches, events_fetches >>

----------------------------------------------------------------------------
\* Bounds of the model.
MaxLeads == 2
MaxAttendances == 2
MaxStamp == 2
MaxEvents == 2
MaxAttendees == 2
MaxCalendars == 2
MaxTicks == 3

\* Program constants.
SecondsPerDay == 86400
SecondsPerHour == 3600
SecondsPerMinute == 60
ttl == 3600

Emails == {"a@x.com", "b@x.com"}

\* The timestamps the inputs are drawn from: 30 hours apart.
Stamp(k) == k * 30 * SecondsPerHour
Stamps == {Stamp(k) : k \in 0..MaxStamp}

\* An optional value is a sequence: << >> when absent, << v >> when present.
Absent == << >>

BoundedSeq(S, n) == UNION {[1..k -> S] : k \in 0..n}

Lead == [email : Emails, created_at : Stamps]
CalendarAttendance == [attendee_email : Emails, event_created_at : Stamps]

----------------------------------------------------------------------------
\* Sequence helpers.
RECURSIVE SumSpeed(_)
SumSpeed(rows) ==
    IF rows = << >> THEN 0 ELSE Head(rows).speed + SumSpeed(Tail(rows))

----------------------------------------------------------------------------
\* pd.merge(df_leads, df_events, left_on='email', right_on='attendee_email',
\* how='inner'): the rows of the left frame in order, each with its matching
\* right rows in order.
RECURSIVE MatchesOf(_, _)
MatchesOf(lead, events) ==
    IF events = << >> THEN << >>
    ELSE LET e == Head(events)
             rest == MatchesOf(lead, Tail(events))
         IN IF e.attendee_email = lead.email
            THEN << [email |-> lead.email, created_at |-> lead.created_at,
                     event_created_at |-> e.event_created_at] >> \o rest
            ELSE rest

RECURSIVE merge(_, _)
merge(leads, events) ==
    IF leads = << >> THEN << >>
    ELSE MatchesOf(Head(leads), events) \o merge(Tail(leads), events)

\* merged_df.sort_values(by='event_created_at', ascending=True), with the
\* default kind='quicksort', which is not stable: the rows come out ascending
\* by key and rows with equal keys come out in an order the sort does not
\* promise.  sort_values is the set of the frames the call can return: every
\* arrangement of the rows that is ascending by event_created_at.
\* Arrangements(rows, S) arranges the rows at the positions S; of several
\* equal rows the one at the lowest position is taken first, for swapping
\* equal rows gives the same frame.
RECURSIVE Arrangements(_, _)
Arrangements(rows, S) ==
    IF S = {} THEN {<< >>}
    ELSE LET least == {i \in S : \A j \in S :
                          rows[i].event_created_at <= rows[j].event_created_at}
             firsts == {i \in least : \A j \in least : j < i => rows[j] # rows[i]}
         IN UNION {{<< rows[i] >> \o rest : rest \in Arrangements(rows, S \ {i})} :
                   i \in firsts}

SortArrivalOrder(rows) == {rows}

sort_values(rows) == Arrangements(rows, 1..Len(rows))

\* drop_duplicates(subset='email', keep='first')
RECURSIVE drop_duplicates(_)
drop_duplicates(rows) ==
    IF rows = << >> THEN << >>
    ELSE LET n == Len(rows)
             before == SubSeq(rows, 1, n - 1)
         IN IF \E i \in 1..(n - 1) : rows[i].email = rows[n].email
            THEN drop_duplicates(before)
            ELSE drop_duplicates(before) \o << rows[n] >>

\* first_call_df['speed'] = event_created_at - created_at
WithSpeed(rows) ==
    [i \in 1..Len(rows) |->
        [email |-> rows[i].email, created_at |-> rows[i].created_at,
         event_created_at |-> rows[i].event_created_at,
         speed |-> rows[i].event_created_at - rows[i].created_at]]

\* first_call_df[first_call_df['speed'] >= pd.Timedelta(0)]
KeepAllSpeeds(rows) == rows

RECURSIVE NonNegativeSpeed(_)
NonNegativeSpeed(rows) ==
    IF rows = << >> THEN << >>
    ELSE IF Head(rows).speed >= 0
         THEN << Head(rows) >> \o NonNegativeSpeed(Tail(rows))
         ELSE NonNegativeSpeed(Tail(rows))

\* first_call_df['speed'].mean()
MeanOffByOne(rows) == SumSpeed(rows) \div (Len(rows) + 1)

mean(rows) == SumSpeed(rows) \div Len(rows)

\* The day/hour/minute decomposition of the batch run.
BatchHoursNoMod(total_seconds) ==
    [days |-> total_seconds \div SecondsPerDay,
     hours |-> total_seconds \div SecondsPerHour,
     minutes |-> (total_seconds % SecondsPerHour) \div SecondsPerMinute]

PresentBatch(total_seconds) ==
    [days |-> total_seconds \div SecondsPerDay,
     hours |-> (total_seconds % SecondsPerDay) \div SecondsPerHour,
     minutes |-> (total_seconds % SecondsPerHour) \div SecondsPerMinute]

\* The day/hour decomposition of the dashboard's metric.
PresentDashboard(total_seconds) ==
    [days |-> total_seconds \div SecondsPerDay,
     hours |-> (total_seconds % SecondsPerDay) \div SecondsPerHour]

----------------------------------------------------------------------------
\* The notices an invocation ends with.
NoNotice == "none"
NoticeInsufficient == "insufficient_data"
NoticeNoCalls == "no_lead_with_call"
NoticeNoValid == "no_valid_conversion"
NoticeResult == "result"

\* Lines 134-176 of main.py and 85-115 of dashboard.py: the join, the choice
\* of the first event per email, the filter, the mean and its rendering.
Outcome(n, rows, avg, metric) ==
    [notice |-> n, first_call_df |-> rows, average_speed |-> avg, shown |-> metric]

\* The frames first_call_df can be before the filter, one per frame the sort
\* can return.
first_call(leads, events) ==
    {WithSpeed(drop_duplicates(sorted)) : sorted \in sort_values(merge(leads, events))}

\* main.py 147-176, from first_call_df on.
MainOutcome(first_call_rows) ==
    LET kept == NonNegativeSpeed(first_call_rows)
    IN IF first_call_rows = << >>
       THEN Outcome(NoticeNoCalls, << >>, << >>, << >>)
       ELSE IF kept = << >>
       THEN Outcome(NoticeNoValid, << >>, << >>, << >>)
       ELSE Outcome(NoticeResult, kept, << mean(kept) >>,
                    << [count |-> Len(kept)] @@ PresentBatch(mean(kept)) >>)

\* dashboard.py 95-115, from first_call_df on.
DashboardOutcome(first_call_rows) ==
    LET kept == NonNegativeSpeed(first_call_rows)
    IN IF first_call_rows = << >>
       THEN Outcome(NoticeNoCalls, << >>, << >>, << >>)
       ELSE IF kept = << >>
       THEN Outcome(NoticeNoValid, << >>, << >>, << >>)
       ELSE Outcome(NoticeResult, kept, << mean(kept) >>,
                    << [count |-> Len(kept)] @@ PresentDashboard(mean(kept)) >>)

\* The outcomes an invocation can end with on the two frames.
main_aggregate(leads, events) ==
    IF leads = << >> \/ events = << >>
    THEN {Outcome(NoticeInsufficient, << >>, << >>, << >>)}
    ELSE {MainOutcome(first_call_rows) : first_call_rows \in first_call(leads, events)}

DashboardNoJoinCheck(leads, events) ==
    IF leads = << >> \/ events = << >>
    THEN {Outcome(NoticeInsufficient, << >>, << >>, << >>)}
    ELSE {LET kept == NonNegativeSpeed(first_call_rows)
          IN IF kept = << >>
             THEN Outcome(NoticeNoValid, << >>, << >>, << >>)
             ELSE Outcome(NoticeResult, kept, << mean(kept) >>,
                          << [count |-> Len(kept)] @@ PresentDashboard(mean(kept)) >>) :
          first_call_rows \in first_call(leads, events)}

dashboard_aggregate(leads, events) ==
    IF leads = << >> \/ events = << >>
    THEN {Outcome(NoticeInsufficient, << >>, << >>, << >>)}
    ELSE {DashboardOutcome(first_call_rows) :
          first_call_rows \in first_call(leads, events)}

----------------------------------------------------------------------------
\* Calendar data.  A flag of an attendee is "true", "false" or "absent".
Flags == {"absent", "true", "false"}
Attendee == [email : Emails, self : Flags, resource : Flags]

\* attendee.get(flag, False)
GetFlag(f) == f = "true"

IgnoreSelfFlag(a) == ~GetFlag(a.resource)

Qualifies(a) == ~GetFlag(a.self) /\ ~GetFlag(a.resource)

RECURSIVE AttendeeRows(_, _)
AttendeeRows(attendees, creation_date) ==
    IF attendees = << >> THEN << >>
    ELSE IF Qualifies(Head(attendees))
         THEN << [attendee_email |-> Head(attendees).email,
                  event_created_at |-> creation_date] >>
              \o AttendeeRows(Tail(attendees), creation_date)
         ELSE AttendeeRows(Tail(attendees), creation_date)

\* main.py 105-117
RECURSIVE main_processed_events(_)
main_processed_events(events) ==
    IF events = << >> THEN << >>
    ELSE LET event == Head(events)
         IN IF event.created = << >>
            THEN main_processed_events(Tail(events))
            ELSE AttendeeRows(event.attendees, event.created[1])
                 \o main_processed_events(Tail(events))

\* dashboard.py 60-65
RECURSIVE dashboard_processed_events(_)
dashboard_processed_events(events) ==
    IF events = << >> THEN << >>
    ELSE LET event == Head(events)
         IN IF event.created # << >> /\ event.attendees # << >>
            THEN AttendeeRows(event.attendees, event.created[1])
                 \o dashboard_processed_events(Tail(events))
            ELSE dashboard_processed_events(Tail(events))

----------------------------------------------------------------------------
\* What the collaborators answer in the pipeline specification.
StoreRows ==
    BoundedSeq([email : {"a@x.com"}, created_at : {Stamp(0), Stamp(2)}], 1)

PipelineAttendee ==
    [email : {"a@x.com"}, self : {"absent", "true"}, resource : {"absent"}]

PipelineEvent ==
    [created : {<< >>, << Stamp(1) >>}, attendees : BoundedSeq(PipelineAttendee, 1)]

CalendarItems == BoundedSeq(PipelineEvent, 1)

\* The ways the credential is obtained (token.json valid, refreshed, or a new
\* consent flow), each refresh or flow succeeding or raising.
CredentialCases ==
    {"valid", "refreshed", "refresh_error", "flow_done", "flow_error"}

CallOutcomes == {"ok", "HttpError", "OtherError"}

\* Diagnostics the fetchers surface.
DiagSupabaseError == "supabase_error"
DiagNoLeads == "no_leads_found"
DiagNoEvents == "no_events_found"
DiagCalendarError == "calendar_error"

\* st.cache_data(ttl=3600): an entry is served while it is younger than ttl.
EmptyEntry == [stored |-> FALSE, at |-> 0, value |-> << >>, messages |-> {}]

AlwaysFresh(entry) == entry.stored

Fresh(entry) == entry.stored /\ now < entry.at + ttl

PageShown == pc \in {"idle", "done", "aborted"}

ResetInvocation ==
    /\ df_leads' = << >>
    /\ df_events' = << >>
    /\ calendars' = 0
    /\ cal_i' = 1
    /\ all_events' = << >>
    /\ diagnostics' = {}
    /\ notice' = NoNotice
    /\ first_call_df' = << >>
    /\ average_speed' = << >>
    /\ shown' = << >>
    /\ leads_fetches' = 0
    /\ events_fetches' = 0

Init ==
    /\ surface \in {"batch", "interactive"}
    /\ pc = "idle"
    /\ now = 0
    /\ leads_cache = EmptyEntry
    /\ events_cache = EmptyEntry
    /\ df_leads = << >>
    /\ df_events = << >>
    /\ calendars = 0
    /\ cal_i = 1
    /\ all_events = << >>
    /\ faults = {}
    /\ diagnostics = {}
    /\ notice = NoNotice
    /\ first_call_df = << >>
    /\ average_speed = << >>
    /\ shown = << >>
    /\ leads_fetches = 0
    /\ events_fetches = 0

\* create_client(SUPABASE_URL, SUPABASE_KEY): the client is built from the
\* configured URL and key, or the call raises.
ClientCases == {"created", "client_error"}

\* main.py 15-21, 179-180, 129-131: the module builds the store client while
\* it loads, outside any handler, and then the process starts main().
RunMain ==
    /\ surface = "batch"
    /\ pc = "idle"
    /\ \E c \in ClientCases :
          IF c = "client_error"
          THEN /\ faults' = {"client"}
               /\ pc' = "crashed"
          ELSE /\ faults' = {}
               /\ pc' = "leads"
    /\ ResetInvocation
    /\ UNCHANGED << surface, now, leads_cache, events_cache >>

\* dashboard.py 80-82: the button is pressed and the script reruns.
PressButton ==
    /\ surface = "interactive"
    /\ PageShown
    /\ pc' = "leads"
    /\ faults' = {}
    /\ ResetInvocation
    /\ UNCHANGED << surface, now, leads_cache, events_cache >>

\* Time passes while the page is shown.
Tick ==
    /\ surface = "interactive"
    /\ PageShown
    /\ now < MaxTicks * (ttl \div 2)
    /\ now' = now + ttl \div 2
    /\ UNCHANGED << surface, pc, leads_cache, events_cache, df_leads, df_events,
                    calendars, cal_i, all_events, faults, diagnostics, notice,
                    first_call_df, average_speed, shown, leads_fetches,
                    events_fetches >>

\* main.py 29-52
main_get_supabase_leads ==
    /\ surface = "batch"
    /\ pc = "leads"
    /\ \E outcome \in {"ok", "error"}, rows \in StoreRows :
          /\ leads_fetches' = leads_fetches + 1
          /\ IF outcome = "error"
             THEN /\ df_leads' = << >>
                  /\ diagnostics' = diagnostics \cup {DiagSupabaseError}
                  /\ faults' = faults \cup {"store"}
             ELSE IF rows = << >>
             THEN /\ df_leads' = << >>
                  /\ diagnostics' = diagnostics \cup {DiagNoLeads}
                  /\ faults' = faults
             ELSE /\ df_leads' = rows
                  /\ UNCHANGED << diagnostics, faults >>
    /\ pc' = "events"
    /\ UNCHANGED << surface, now, leads_cache, events_cache, df_events, calendars,
                    cal_i, all_events, notice, first_call_df, average_speed,
                    shown, events_fetches >>

\* dashboard.py 22-33: a fresh cache entry is returned (its messages replayed);
\* otherwise the function runs.  It builds the store client before its try
\* block (line 25): an error raised there is caught by nobody, nothing is
\* cached and the script run ends.  Inside the try the store is queried; an
\* empty answer has no 'created_at' column: the KeyError is caught like any
\* other error.
dashboard_get_supabase_leads ==
    /\ surface = "interactive"
    /\ pc = "leads"
    /\ IF Fresh(leads_cache)
       THEN /\ df_leads' = leads_cache.value
            /\ diagnostics' = diagnostics \cup leads_cache.messages
            /\ pc' = "events"
            /\ UNCHANGED << leads_cache, leads_fetches, faults >>
       ELSE \E c \in ClientCases, outcome \in {"ok", "error"}, rows \in StoreRows :
               IF c = "client_error"
               THEN /\ faults' = faults \cup {"client"}
                    /\ pc' = "aborted"
                    /\ UNCHANGED << leads_cache, leads_fetches, df_leads,
                                    diagnostics >>
               ELSE LET failed == outcome = "error" \/ rows = << >>
                        value == IF failed THEN << >> ELSE rows
                        msgs == IF failed THEN {DiagSupabaseError} ELSE {}
                    IN /\ leads_fetches' = leads_fetches + 1
                       /\ faults' = IF outcome = "error" THEN faults \cup {"store"}
                                    ELSE faults
                       /\ df_leads' = value
                       /\ diagnostics' = diagnostics \cup msgs
                       /\ leads_cache' = [stored |-> TRUE, at |-> now,
                                          value |-> value, messages |-> msgs]
                       /\ pc' = "events"
    /\ UNCHANGED << surface, now, events_cache, df_events, calendars, cal_i,
                    all_events, notice, first_call_df, average_speed, shown,
                    events_fetches >>

----------------------------------------------------------------------------
\* get_google_calendar_events.  On the dashboard every return of the function
\* is stored in the cache with the messages it showed.
DashboardReturn(value, msgs) ==
    /\ df_events' = value
    /\ diagnostics' = diagnostics \cup msgs
    /\ events_cache' = [stored |-> TRUE, at |-> now, value |-> value,
                        messages |-> msgs]
    /\ pc' = "fetched"

\* dashboard.py 35-36: a fresh cache entry is returned without running the
\* function.
dashboard_events_cached ==
    /\ surface = "interactive"
    /\ pc = "events"
    /\ Fresh(events_cache)
    /\ df_events' = events_cache.value
    /\ diagnostics' = diagnostics \cup events_cache.messages
    /\ pc' = "fetched"
    /\ UNCHANGED << surface, now, leads_cache, events_cache, df_leads, calendars,
                    cal_i, all_events, faults, notice, first_call_df,
                    average_speed, shown, leads_fetches, events_fetches >>

\* main.py 57-68, dashboard.py 38-48: the credential is read, refreshed or
\* obtained before the try block; an error raised here is caught by nobody.
obtain_credentials ==
    /\ pc = "events"
    /\ surface = "interactive" => ~Fresh(events_cache)
    /\ \E c \in CredentialCases :
          IF c \in {"refresh_error", "flow_error"}
          THEN /\ faults' = faults \cup {"credential"}
               /\ pc' = IF surface = "batch" THEN "crashed" ELSE "aborted"
          ELSE /\ faults' = faults
               /\ pc' = "list"
    /\ UNCHANGED << surface, now, leads_cache, events_cache, df_leads, df_events,
                    calendars, cal_i, all_events, diagnostics, notice,
                    first_call_df, average_speed, shown, leads_fetches,
                    events_fetches >>

\* main.py 70-78 with the handler of 125-127 (HttpError only).
main_calendar_list ==
    /\ surface = "batch"
    /\ pc = "list"
    /\ events_fetches' = events_fetches + 1
    /\ \E outcome \in CallOutcomes, n \in 0..MaxCalendars :
          IF outcome = "ok"
          THEN /\ calendars' = n
               /\ cal_i' = 1
               /\ all_events' = << >>
               /\ pc' = "loop"
               /\ UNCHANGED << df_events, diagnostics, faults >>
          ELSE /\ faults' = faults \cup {"calendar_list"}
               /\ UNCHANGED << calendars, cal_i, all_events >>
               /\ IF outcome = "HttpError"
                  THEN /\ df_events' = << >>
                       /\ diagnostics' = diagnostics \cup {DiagCalendarError}
                       /\ pc' = "fetched"
                  ELSE /\ pc' = "crashed"
                       /\ UNCHANGED << df_events, diagnostics >>
    /\ UNCHANGED << surface, now, leads_cache, events_cache, df_leads, notice,
                    first_call_df, average_speed, shown, leads_fetches >>

\* dashboard.py 49-53 with the handler of 70-72 (any Exception).
dashboard_calendar_list ==
    /\ surface = "interactive"
    /\ pc = "list"
    /\ events_fetches' = events_fetches + 1
    /\ \E outcome \in CallOutcomes, n \in 0..MaxCalendars :
          IF outcome = "ok"
          THEN /\ calendars' = n
               /\ cal_i' = 1
               /\ all_events' = << >>
               /\ pc' = "loop"
               /\ UNCHANGED << df_events, diagnostics, faults, events_cache >>
          ELSE /\ faults' = faults \cup {"calendar_list"}
               /\ UNCHANGED << calendars, cal_i, all_events >>
               /\ DashboardReturn(<< >>, {DiagCalendarError})
    /\ UNCHANGED << surface, now, leads_cache, df_leads, notice, first_call_df,
                    average_speed, shown, leads_fetches >>

\* main.py 81-98: one events().list call for the calendar the loop is at.
main_events_list ==
    /\ surface = "batch"
    /\ pc = "loop"
    /\ cal_i <= calendars
    /\ \E outcome \in CallOutcomes, items \in CalendarItems :
          IF outcome = "ok"
          THEN /\ all_events' = all_events \o items
               /\ cal_i' = cal_i + 1
               /\ pc' = "loop"
               /\ UNCHANGED << df_events, diagnostics, faults >>
          ELSE /\ faults' = faults \cup {"events_call"}
               /\ UNCHANGED << cal_i, all_events >>
               /\ IF outcome = "HttpError"
                  THEN /\ df_events' = << >>
                       /\ diagnostics' = diagnostics \cup {DiagCalendarError}
                       /\ pc' = "fetched"
                  ELSE /\ pc' = "crashed"
                       /\ UNCHANGED << df_events, diagnostics >>
    /\ UNCHANGED << surface, now, leads_cache, events_cache, df_leads, calendars,
                    notice, first_call_df, average_speed, shown, leads_fetches,
                    events_fetches >>

\* dashboard.py 54-58
dashboard_events_list ==
    /\ surface = "interactive"
    /\ pc = "loop"
    /\ cal_i <= calendars
    /\ \E outcome \in CallOutcomes, items \in CalendarItems :
          IF outcome = "ok"
          THEN /\ all_events' = all_events \o items
               /\ cal_i' = cal_i + 1
               /\ pc' = "loop"
               /\ UNCHANGED << df_events, diagnostics, faults, events_cache >>
          ELSE /\ faults' = faults \cup {"events_call"}
               /\ UNCHANGED << cal_i, all_events >>
               /\ DashboardReturn(<< >>, {DiagCalendarError})
    /\ UNCHANGED << surface, now, leads_cache, df_leads, calendars, notice,
                    first_call_df, average_speed, shown, leads_fetches,
                    events_fetches >>

\* main.py 100-123: nothing accumulated returns an empty frame; otherwise the
\* attendee rows are built, and a frame built from no rows has no
\* 'event_created_at' column: line 120 raises KeyError, which the HttpError
\* handler does not catch.
main_process_events ==
    /\ surface = "batch"
    /\ pc = "loop"
    /\ cal_i > calendars
    /\ IF all_events = << >>
       THEN /\ df_events' = << >>
            /\ diagnostics' = diagnostics \cup {DiagNoEvents}
            /\ pc' = "fetched"
       ELSE IF main_processed_events(all_events) = << >>
       THEN /\ pc' = "crashed"
            /\ UNCHANGED << df_events, diagnostics >>
       ELSE /\ df_events' = main_processed_events(all_events)
            /\ pc' = "fetched"
            /\ UNCHANGED diagnostics
    /\ UNCHANGED << surface, now, leads_cache, events_cache, df_leads, calendars,
                    cal_i, all_events, faults, notice, first_call_df,
                    average_speed, shown, leads_fetches, events_fetches >>

\* dashboard.py 60-72: the same KeyError is caught by the Exception handler.
dashboard_process_events ==
    /\ surface = "interactive"
    /\ pc = "loop"
    /\ cal_i > calendars
    /\ IF dashboard_processed_events(all_events) = << >>
       THEN DashboardReturn(<< >>, {DiagCalendarError})
       ELSE DashboardReturn(dashboard_processed_events(all_events), {})
    /\ UNCHANGED << surface, now, leads_cache, df_leads, calendars, cal_i,
                    all_events, faults, notice, first_call_df, average_speed,
                    shown, leads_fetches, events_fetches >>

\* main.py 134-176
main_report ==
    /\ surface = "batch"
    /\ pc = "fetched"
    /\ \E r \in main_aggregate(df_leads, df_events) :
          /\ notice' = r.notice
          /\ first_call_df' = r.first_call_df
          /\ average_speed' = r.average_speed
          /\ shown' = r.shown
    /\ pc' = "done"
    /\ UNCHANGED << surface, now, leads_cache, events_cache, df_leads, df_events,
                    calendars, cal_i, all_events, faults, diagnostics,
                    leads_fetches, events_fetches >>

\* dashboard.py 85-132
dashboard_report ==
    /\ surface = "interactive"
    /\ pc = "fetched"
    /\ \E r \in dashboard_aggregate(df_leads, df_events) :
          /\ notice' = r.notice
          /\ first_call_df' = r.first_call_df
          /\ average_speed' = r.average_speed
          /\ shown' = r.shown
    /\ pc' = "done"
    /\ UNCHANGED << surface, now, leads_cache, events_cache, df_leads, df_events,
                    calendars, cal_i, all_events, faults, diagnostics,
                    leads_fetches, events_fetches >>

Next ==
    \/ RunMain
    \/ PressButton
    \/ Tick
    \/ main_get_supabase_leads
    \/ dashboard_get_supabase_leads
    \/ dashboard_events_cached
    \/ obtain_credentials
    \/ main_calendar_list
    \/ dashboard_calendar_list
    \/ main_events_list
    \/ dashboard_events_list
    \/ main_process_events
    \/ dashboard_process_events
    \/ main_report
    \/ dashboard_report

Spec == Init /\ [][Next]_vars

----------------------------------------------------------------------------
\* The aggregation on its own: an invocation whose fetchers have returned
\* df_leads and df_events, one calendar event per attendance row.
EventOf(row) ==
    [created |-> << row.event_created_at >>,
     attendees |-> << [email |-> row.attendee_email, self |-> "absent",
                       resource |-> "absent"] >>]

EntryOf(value, msgs) ==
    IF surface = "interactive"
    THEN [stored |-> TRUE, at |-> 0, value |-> value, messages |-> msgs]
    ELSE EmptyEntry

InitAgg ==
    /\ surface \in {"batch", "interactive"}
    /\ pc = "fetched"
    /\ now = 0
    /\ df_leads \in BoundedSeq(Lead, MaxLeads)
    /\ df_events \in BoundedSeq(CalendarAttendance, MaxAttendances)
    /\ calendars = 1
    /\ cal_i = 2
    /\ all_events = [i \in 1..Len(df_events) |-> EventOf(df_events[i])]
    /\ faults = {}
    /\ LET lead_msgs == IF df_leads # << >> THEN {}
                        ELSE IF surface = "batch" THEN {DiagNoLeads}
                        ELSE {DiagSupabaseError}
           event_msgs == IF df_events # << >> THEN {}
                         ELSE IF surface = "batch" THEN {DiagNoEvents}
                         ELSE {DiagCalendarError}
       IN /\ diagnostics = lead_msgs \cup event_msgs
          /\ leads_cache = EntryOf(df_leads, lead_msgs)
          /\ events_cache = EntryOf(df_events, event_msgs)
    /\ notice = NoNotice
    /\ first_call_df = << >>
    /\ average_speed = << >>
    /\ shown = << >>
    /\ leads_fetches = 1
    /\ events_fetches = 1

NextAgg ==
    \/ main_report
    \/ dashboard_report

SpecAgg == InitAgg /\ [][NextAgg]_vars

\* The aggregation on frames whose timestamps are few, so that joined rows
\* tie on the sort key.
TieStamps == {Stamp(0), Stamp(1)}

InitOrder ==
    /\ InitAgg
    /\ \A i \in 1..Len(df_leads) : df_leads[i].created_at \in TieStamps
    /\ \A j \in 1..Len(df_events) : df_events[j].event_created_at \in TieStamps

SpecOrder == InitOrder /\ [][NextAgg]_vars

\* The flattening of the accumulated events on its own: an invocation whose
\* single calendar has answered all_events, at most MaxEvents events with at
\* most MaxAttendees attendees between them.
CreatedValues == {<< >>, << Stamp(0) >>, << Stamp(1) >>}

RECURSIVE AttendeesOf(_, _, _)
AttendeesOf(i, guests, owner) ==
    IF guests = << >> THEN << >>
    ELSE IF Head(owner) = i
         THEN << Head(guests) >> \o AttendeesOf(i, Tail(guests), Tail(owner))
         ELSE AttendeesOf(i, Tail(guests), Tail(owner))

EventsBuilt(created, guests, owner) ==
    [i \in 1..Len(created) |->
        [created |-> created[i], attendees |-> AttendeesOf(i, guests, owner)]]

InitFetch ==
    /\ surface \in {"batch", "interactive"}
    /\ pc = "loop"
    /\ now = 0
    /\ df_leads = << [email |-> "a@x.com", created_at |-> Stamp(0)] >>
    /\ leads_cache = EntryOf(df_leads, {})
    /\ events_cache = EmptyEntry
    /\ df_events = << >>
    /\ calendars = 1
    /\ cal_i = 2
    /\ \E n \in 0..MaxEvents, k \in 0..MaxAttendees :
          \E created \in [1..n -> CreatedValues],
             guests \in [1..k -> Attendee],
             owner \in [1..k -> 1..n] :
                /\ \A i, j \in 1..k : i <= j => owner[i] <= owner[j]
                /\ all_events = EventsBuilt(created, guests, owner)
    /\ faults = {}
    /\ diagnostics = {}
    /\ notice = NoNotice
    /\ first_call_df = << >>
    /\ average_speed = << >>
    /\ shown = << >>
    /\ leads_fetches = 1
    /\ events_fetches = 1

NextFetch ==
    \/ main_process_events
    \/ dashboard_process_events

SpecFetch == InitFetch /\ [][NextFetch]_vars

----------------------------------------------------------------------------
\* What the claims speak of, stated over the frames the fetchers returned.
Done == pc = "done"

LeadRowsOf(e) == {i \in 1..Len(df_leads) : df_leads[i].email = e}

MatchingStamps(e) ==
    {df_events[j].event_created_at :
        j \in {k \in 1..Len(df_events) : df_events[k].attendee_email = e}}

Least(S) == CHOOSE x \in S : \A y \in S : x <= y

\* The creation time of the first lead row of an email.
FirstLeadStamp(e) == df_leads[Least(LeadRowsOf(e))].created_at

JoinedEmails == {e \in Emails : LeadRowsOf(e) # {} /\ MatchingStamps(e) # {}}

\* The candidate of a joined email pairs its earliest matching event with one
\* of its lead rows: all the lead rows of the email are joined with that
\* event, the joined rows have equal keys, and the sort decides which comes
\* first.  A pairing names that lead row for every joined email.
Pairings ==
    {c \in [JoinedEmails -> 1..Len(df_leads)] :
        \A e \in JoinedEmails : c[e] \in LeadRowsOf(e)}

CandidateSpeed(e, c) == Least(MatchingStamps(e)) - df_leads[c[e]].created_at

CandidateRow(e, c) ==
    [email |-> e, created_at |-> df_leads[c[e]].created_at,
     event_created_at |-> Least(MatchingStamps(e)), speed |-> CandidateSpeed(e, c)]

Survivors(c) == {e \in JoinedEmails : CandidateSpeed(e, c) >= 0}

RECURSIVE TotalSpeed(_, _)
TotalSpeed(S, c) ==
    IF S = {} THEN 0
    ELSE LET e == CHOOSE x \in S : TRUE
         IN CandidateSpeed(e, c) + TotalSpeed(S \ {e}, c)

\* No joined email is held by lead rows that differ in created_at.
LeadRowsAgree ==
    \A e \in JoinedEmails :
        \A i, j \in LeadRowsOf(e) : df_leads[i].created_at = df_leads[j].created_at

RowsOf(e) == {i \in 1..Len(first_call_df) : first_call_df[i].email = e}

RowSet(rows) == {rows[i] : i \in 1..Len(rows)}

\* C1: for a lead email (held by one lead row) with matching attendances, the
\* records hold exactly one row for it, whose event is the earliest matching
\* one that is not before the lead, whatever earlier events also match; when
\* every matching event is before the lead, the email is absent.
C1_EarliestValidMatchIsKept ==
    Done =>
      \A e \in Emails :
        (Cardinality(LeadRowsOf(e)) = 1 /\ MatchingStamps(e) # {}) =>
          LET valid == {t \in MatchingStamps(e) : t >= FirstLeadStamp(e)}
          IN IF valid # {}
             THEN /\ Cardinality(RowsOf(e)) = 1
                  /\ \A i \in RowsOf(e) :
                        first_call_df[i].event_created_at = Least(valid)
             ELSE RowsOf(e) = {}

\* C2: every retained row is a lead joined with one of its attendances, its
\* speed is event_created_at - created_at and is not negative; the count shown
\* and the mean are taken over these rows only.
C2_RetainedSpeedNonNegative ==
    /\ \A i \in 1..Len(first_call_df) :
          LET r == first_call_df[i]
          IN /\ r.speed = r.event_created_at - r.created_at
             /\ r.speed >= 0
             /\ r.event_created_at >= r.created_at
             /\ \E k \in LeadRowsOf(r.email) : df_leads[k].created_at = r.created_at
             /\ r.event_created_at \in MatchingStamps(r.email)
    /\ shown # << >> =>
          /\ shown[1].count = Len(first_call_df)
          /\ average_speed # << >>
          /\ average_speed[1] >= 0
          /\ average_speed[1] * Len(first_call_df) <= SumSpeed(first_call_df)

C2_Witness ==
    /\ Done
    /\ notice = NoticeResult
    /\ \E e \in JoinedEmails :
          \A k \in LeadRowsOf(e) : Least(MatchingStamps(e)) < df_leads[k].created_at

\* C3: the count is the number of candidates that pass the filter and the
\* retained rows are those candidates; with N > 0 of them the mean is their
\* total divided by N; with none, no mean and no metric exist and a notice is
\* shown instead.  The candidates are those of one pairing of the joined
\* emails with their lead rows.
C3_CountAndMean ==
    Done =>
      \E c \in Pairings :
      LET N == Cardinality(Survivors(c))
          total == TotalSpeed(Survivors(c), c)
      IN /\ Len(first_call_df) = N
         /\ RowSet(first_call_df) = {CandidateRow(e, c) : e \in Survivors(c)}
         /\ N > 0 =>
               /\ notice = NoticeResult
               /\ shown # << >>
               /\ shown[1].count = N
               /\ average_speed # << >>
               /\ average_speed[1] * N <= total
               /\ total < (average_speed[1] + 1) * N
         /\ N = 0 =>
               /\ average_speed = << >>
               /\ shown = << >>
               /\ notice \in {NoticeInsufficient, NoticeNoCalls, NoticeNoValid}

C3_Witness ==
    /\ Done
    /\ Len(first_call_df) = 2
    /\ first_call_df[1].speed # first_call_df[2].speed
    /\ average_speed # << >>
    /\ average_speed[1] > 0

\* The reorderings of a frame of n rows, and the report of the surface at hand.
Reorderings(n) == {f \in [1..n -> 1..n] : \A i, j \in 1..n : f[i] = f[j] => i = j}

Reordered(rows, f) == [i \in 1..Len(rows) |-> rows[f[i]]]

Report(leads, events) ==
    IF surface = "batch" THEN main_aggregate(leads, events)
    ELSE dashboard_aggregate(leads, events)

SameResult(r) ==
    /\ r.notice = notice
    /\ Len(r.first_call_df) = Len(first_call_df)
    /\ r.average_speed = average_speed
    /\ r.shown = shown
    /\ RowSet(r.first_call_df) = RowSet(first_call_df)

Cause(leads, events) ==
    IF leads = << >> /\ events = << >> THEN "both_empty"
    ELSE IF leads = << >> THEN "empty_leads"
    ELSE IF events = << >> THEN "empty_events"
    ELSE IF \A i \in 1..Len(leads), j \in 1..Len(events) :
               leads[i].email # events[j].attendee_email
    THEN "empty_join"
    ELSE "joined"

CauseExamples ==
    LET a0 == [email |-> "a@x.com", created_at |-> Stamp(0)]
        b0 == [attendee_email |-> "b@x.com", event_created_at |-> Stamp(0)]
        a1 == [email |-> "a@x.com", created_at |-> Stamp(1)]
        e0 == [attendee_email |-> "a@x.com", event_created_at |-> Stamp(0)]
    IN { << << >>, << e0 >> >>, << << a0 >>, << >> >>,
         << << a0 >>, << b0 >> >>, << << a1 >>, << e0 >> >> }

\* Every candidate is negative ("all_negative"), some candidate is not
\* ("none"), or that depends on the lead row the sort puts first ("tie").
StateCause ==
    IF Cause(df_leads, df_events) # "joined" THEN Cause(df_leads, df_events)
    ELSE IF \A e \in JoinedEmails : \A k \in LeadRowsOf(e) :
               Least(MatchingStamps(e)) < df_leads[k].created_at
    THEN "all_negative"
    ELSE IF \E e \in JoinedEmails : \A k \in LeadRowsOf(e) :
               Least(MatchingStamps(e)) >= df_leads[k].created_at
    THEN "none"
    ELSE "tie"

ExampleCause(x) ==
    IF Cause(x[1], x[2]) # "joined" THEN Cause(x[1], x[2]) ELSE "all_negative"

FourCauses == {"empty_leads", "empty_events", "empty_join", "all_negative"}

\* C8 as claimed: the four causes of insufficient data (empty leads, empty
\* events, empty join, every candidate negative) end in four different notices:
\* the notice shown differs from the one any example of another cause gets.
C8_FourCausesFourNotices ==
    (Done /\ StateCause \in FourCauses) =>
      \A x \in CauseExamples :
        ExampleCause(x) # StateCause =>
            \A r \in Report(x[1], x[2]) : r.notice # notice

\* C8 as amended: the notice names the stage that came up empty.  Empty leads
\* and empty events share one notice; an empty join and an all-negative join
\* have one each; the three notices and the result header differ pairwise.
\* When the lead rows of an email differ in created_at and the one the sort
\* puts first decides whether any candidate survives, the invocation ends with
\* the all-negative notice or with the result.
C8_NoticeNamesTheEmptyStage ==
    /\ Cardinality({NoticeInsufficient, NoticeNoCalls, NoticeNoValid,
                    NoticeResult, NoNotice}) = 5
    /\ Done =>
         notice \in CASE StateCause \in {"both_empty", "empty_leads", "empty_events"}
                           -> {"insufficient_data"}
                      [] StateCause = "empty_join" -> {"no_lead_with_call"}
                      [] StateCause = "all_negative" -> {"no_valid_conversion"}
                      [] StateCause = "none" -> {"result"}
                      [] OTHER -> {"no_valid_conversion", "result"}

C8_Witness ==
    /\ Done
    /\ df_leads = << >>
    /\ df_events # << >>
    /\ notice = NoticeInsufficient

\* C10: a mean of S seconds is shown as days = floor(S / 86400) and
\* hours = floor((S mod 86400) / 3600) on both surfaces; a lead of
\* 2024-01-01T00:00:00 met on 2024-01-03T12:00:00 shows 1 lead, 2 days 12 hours.
C10_DaysAndHours ==
    /\ (Done /\ notice = NoticeResult) =>
          LET S == average_speed[1]
              d == shown[1].days
              h == shown[1].hours
          IN /\ S >= 0
             /\ d >= 0
             /\ 0 <= h /\ h <= 23
             /\ d * 86400 + h * 3600 <= S
             /\ S < d * 86400 + (h + 1) * 3600
    /\ (/\ Done
        /\ df_leads = << [email |-> "a@x.com", created_at |-> 0] >>
        /\ df_events = << [attendee_email |-> "a@x.com", event_created_at |-> 216000] >>)
       => /\ notice = NoticeResult
          /\ shown[1].count = 1
          /\ shown[1].days = 2
          /\ shown[1].hours = 12

C10_Witness ==
    /\ Done
    /\ df_leads = << [email |-> "a@x.com", created_at |-> 0] >>
    /\ df_events = << [attendee_email |-> "a@x.com", event_created_at |-> 216000] >>
    /\ shown # << >>

----------------------------------------------------------------------------
\* The (event, attendee) pairs of all_events whose event has a creation
\* timestamp and whose attendee is flagged neither self nor resource.
QualifyingPairs ==
    {p \in (1..Len(all_events)) \X (1..MaxAttendees + 1) :
        /\ all_events[p[1]].created # << >>
        /\ p[2] <= Len(all_events[p[1]].attendees)
        /\ all_events[p[1]].attendees[p[2]].self # "true"
        /\ all_events[p[1]].attendees[p[2]].resource # "true"}

Rank(p) ==
    Cardinality({q \in QualifyingPairs :
                    q[1] < p[1] \/ (q[1] = p[1] /\ q[2] <= p[2])})

\* C9: the fetcher returns one row per (event, attendee) pair whose event has
\* a creation timestamp and whose attendee is flagged neither self nor
\* resource, carrying the attendee's email and the event's timestamp, in event
\* and attendee order, on both surfaces; when the batch fetcher does not
\* return there was no such pair.
C9_OneRowPerQualifyingAttendee ==
    /\ pc = "fetched" =>
          /\ Len(df_events) = Cardinality(QualifyingPairs)
          /\ \A p \in QualifyingPairs :
                df_events[Rank(p)] =
                    [attendee_email |-> all_events[p[1]].attendees[p[2]].email,
                     event_created_at |-> all_events[p[1]].created[1]]
    /\ pc = "crashed" => QualifyingPairs = {}

C9_Witness ==
    /\ pc = "fetched"
    /\ surface = "batch"
    /\ Len(all_events) = 2
    /\ all_events[1].created = << >>
    /\ all_events[2].created = << Stamp(1) >>
    /\ Len(all_events[2].attendees) = 2
    /\ all_events[2].attendees[1].self = "absent"
    /\ all_events[2].attendees[1].resource = "false"
    /\ all_events[2].attendees[2].self = "false"
    /\ all_events[2].attendees[2].resource = "absent"
    /\ Len(df_events) = 2

----------------------------------------------------------------------------
\* C4: a failed remote step makes its fetcher return an empty frame with a
\* diagnostic, and the invocation goes on to the insufficient-data notice: it
\* never ends in an uncaught error.
C4_FetchFailureIsEmptyPlusDiagnostic ==
    /\ faults # {} => pc \notin {"crashed", "aborted"}
    /\ ("store" \in faults /\ pc \in {"events", "list", "loop", "fetched", "done"}) =>
          /\ df_leads = << >>
          /\ DiagSupabaseError \in diagnostics
    /\ (faults \cap {"credential", "calendar_list", "events_call"} # {}
        /\ pc \in {"fetched", "done"}) =>
          /\ df_events = << >>
          /\ DiagCalendarError \in diagnostics
    /\ (faults # {} /\ Done) => notice = NoticeInsufficient

\* C5: with no remote failure, a store without rows or calendars without a
\* qualifying attendance end the invocation with the insufficient-data notice
\* and no join, never with an uncaught error.  (all_events is what this
\* invocation accumulated: on the dashboard it is read only when the calendar
\* service was called, not when the frame came from the cache.)
C5_EmptyDataIsNormalEnd ==
    /\ faults = {} => pc \notin {"crashed", "aborted"}
    /\ (pc \in {"fetched", "done", "crashed"} /\ faults = {} /\ QualifyingPairs = {}
        /\ (surface = "interactive" => events_fetches = 1)) =>
          /\ pc # "crashed"
          /\ df_events = << >>
    /\ (Done /\ (df_leads = << >> \/ df_events = << >>)) =>
          /\ notice = NoticeInsufficient
          /\ first_call_df = << >>

\* C6 as claimed: every press of the button queries the lead store and the
\* calendar service once each.
C6_EveryPressFetches ==
    (surface = "interactive" /\ Done) => (leads_fetches = 1 /\ events_fetches = 1)

\* C6 as amended: a fetcher contacts its collaborator, at most once, only when
\* it holds no cached return value younger than 3600 seconds, and then it
\* either returns and caches what it returned or the press ends in an uncaught
\* error and caches nothing; otherwise the press reuses the value and messages
\* an earlier press cached.  The result shown is the aggregation of the two
\* frames so obtained.
C6_FetchOnlyWhenCacheIsStale ==
    [][ surface = "interactive" =>
          LET fresh_leads == leads_cache.stored /\ now - leads_cache.at < 3600
              fresh_events == events_cache.stored /\ now - events_cache.at < 3600
          IN /\ pc = "leads" =>
                  IF fresh_leads
                  THEN /\ leads_fetches' = leads_fetches
                       /\ leads_cache' = leads_cache
                       /\ df_leads' = leads_cache.value
                       /\ leads_cache.messages \subseteq diagnostics'
                  ELSE \/ /\ pc' = "aborted"
                          /\ leads_fetches' = leads_fetches
                          /\ leads_cache' = leads_cache
                       \/ /\ pc' = "events"
                          /\ leads_fetches' = leads_fetches + 1
                          /\ leads_cache' = [stored |-> TRUE, at |-> now,
                                             value |-> df_leads',
                                             messages |-> diagnostics' \ diagnostics]
             /\ pc = "events" =>
                  IF fresh_events
                  THEN /\ pc' = "fetched"
                       /\ events_fetches' = events_fetches
                       /\ events_cache' = events_cache
                       /\ df_events' = events_cache.value
                       /\ events_cache.messages \subseteq diagnostics'
                  ELSE pc' \in {"list", "aborted"}
             /\ events_fetches' > events_fetches => (pc = "list" /\ ~fresh_events)
             /\ leads_fetches' > leads_fetches => (pc = "leads" /\ ~fresh_leads)
             /\ (pc' = "fetched" /\ pc # "events") =>
                  events_cache' = [stored |-> TRUE, at |-> now, value |-> df_events',
                                   messages |-> diagnostics' \ diagnostics]
             /\ pc' = "done" =>
                  /\ leads_fetches' <= 1 /\ events_fetches' <= 1
                  /\ \E r \in dashboard_aggregate(df_leads, df_events) :
                        /\ notice' = r.notice
                        /\ first_call_df' = r.first_call_df
                        /\ shown' = r.shown
      ]_vars

C6_Witness ==
    /\ surface = "interactive"
    /\ Done
    /\ now > 0
    /\ leads_fetches = 0
    /\ events_fetches = 0
    /\ notice = NoticeResult

====
